---- MODULE Spec2Model ----
(***************************************************************************)
(* Bookmarks browser: the event loop of main(), its background sync        *)
(* workers (do_push / do_pull), the local persistence of the bookmark      *)
(* store and the versioned remote file the workers talk to.                *)
(***************************************************************************)
EXTENDS Integers, Sequences, FiniteSets, TLC

\* ------------------------------------------------------------------ bounds
MaxUserEdits == 1
MaxSyncCmds == 3
MaxRemoteEdits == 1
MaxQueue == 1
MaxFolders == 3
MaxBookmarks == 3
MaxMutations == 3
MaxSettingsEdits == 2

\* ------------------------------------------------------------ Option<T>
None == <<>>
Some(x) == <<x>>
IsSome(o) == Len(o) = 1
Unwrap(o) == o[1]

\* ------------------------------------------------------- data (Rust structs)
Bookmark(name, url) == [name |-> name, url |-> url]
Folder(name, expanded, bookmarks) ==
    [name |-> name, expanded |-> expanded, bookmarks |-> bookmarks]
BookmarkStore(folders) == [folders |-> folders]

default_store ==
    BookmarkStore(<<
        Folder("Documentation", TRUE,
               << Bookmark("The Rust Programming Language", "https://doc.rust-lang.org/book/"),
                  Bookmark("Arch Wiki", "https://wiki.archlinux.org/") >>),
        Folder("News", TRUE,
               << Bookmark("Hacker News", "https://news.ycombinator.com/") >>) >>)

Settings(token, repo) ==
    [sidebar_collapsed |-> FALSE, github_token |-> token, github_repo |-> repo,
     github_gist_id |-> ""]
DefaultSettings == Settings("", "")

\* ------------------------------------------------------------ JSON values
\* A JSON text is modelled by its value tree: objects are ordered lists of
\* key/value pairs, so that reading a field is a lookup that can miss.
JStr(s) == [t |-> "str", v |-> <<s>>]
JBool(b) == [t |-> "bool", v |-> <<b>>]
JArr(items) == [t |-> "arr", v |-> items]
JObj(pairs) == [t |-> "obj", v |-> pairs]
KV(k, j) == [k |-> k, j |-> j]

HasKey(obj, k) == obj.t = "obj" /\ \E i \in 1..Len(obj.v) : obj.v[i].k = k
GetKey(obj, k) == obj.v[CHOOSE i \in 1..Len(obj.v) : obj.v[i].k = k].j

\* serde_json::to_string_pretty(&store): every field of every struct, in
\* declaration order.
BookmarkToJson(b) == JObj(<< KV("name", JStr(b.name)), KV("url", JStr(b.url)) >>)
\* Fault variant: `expanded` is not written.
FolderToJsonNoExpanded(f) ==
    JObj(<< KV("name", JStr(f.name)),
            KV("bookmarks", JArr([i \in 1..Len(f.bookmarks) |-> BookmarkToJson(f.bookmarks[i])])) >>)
FolderToJson(f) ==
    JObj(<< KV("name", JStr(f.name)),
            KV("expanded", JBool(f.expanded)),
            KV("bookmarks", JArr([i \in 1..Len(f.bookmarks) |-> BookmarkToJson(f.bookmarks[i])])) >>)
ToJson(s) ==
    JObj(<< KV("folders", JArr([i \in 1..Len(s.folders) |-> FolderToJson(s.folders[i])])) >>)

\* serde_json::from_str::<BookmarkStore>: required fields must be present
\* with the right type, `expanded` defaults to true, unknown keys are ignored.
IsStrField(obj, k) == HasKey(obj, k) /\ GetKey(obj, k).t = "str"
BookmarkParses(j) == j.t = "obj" /\ IsStrField(j, "name") /\ IsStrField(j, "url")
BookmarkFromJson(j) == Bookmark(GetKey(j, "name").v[1], GetKey(j, "url").v[1])
FolderParses(j) ==
    /\ j.t = "obj"
    /\ IsStrField(j, "name")
    /\ HasKey(j, "expanded") => GetKey(j, "expanded").t = "bool"
    /\ HasKey(j, "bookmarks")
    /\ GetKey(j, "bookmarks").t = "arr"
    /\ \A i \in 1..Len(GetKey(j, "bookmarks").v) : BookmarkParses(GetKey(j, "bookmarks").v[i])
default_true == TRUE
FolderFromJson(j) ==
    Folder(GetKey(j, "name").v[1],
           IF HasKey(j, "expanded") THEN GetKey(j, "expanded").v[1] ELSE default_true,
           [i \in 1..Len(GetKey(j, "bookmarks").v) |-> BookmarkFromJson(GetKey(j, "bookmarks").v[i])])
StoreParses(j) ==
    /\ j.t = "obj"
    /\ HasKey(j, "folders")
    /\ GetKey(j, "folders").t = "arr"
    /\ \A i \in 1..Len(GetKey(j, "folders").v) : FolderParses(GetKey(j, "folders").v[i])
FromJson(j) ==
    BookmarkStore([i \in 1..Len(GetKey(j, "folders").v) |-> FolderFromJson(GetKey(j, "folders").v[i])])

\* Fault variant: github_gist_id is written like the other fields.
SettingsToJsonWithGist(s) ==
    JObj(<< KV("sidebar_collapsed", JBool(s.sidebar_collapsed)),
            KV("github_token", JStr(s.github_token)),
            KV("github_repo", JStr(s.github_repo)),
            KV("github_gist_id", JStr(s.github_gist_id)) >>)

\* Settings as save_to writes them: github_gist_id is skip_serializing.
SettingsToJson(s) ==
    JObj(<< KV("sidebar_collapsed", JBool(s.sidebar_collapsed)),
            KV("github_token", JStr(s.github_token)),
            KV("github_repo", JStr(s.github_repo)) >>)

\* BASE64.encode / BASE64.decode of the JSON text (the transport encoding of
\* the remote file): an encoded blob is not a JSON text, and not every blob
\* decodes.
Base64Encode(json) == [b64 |-> TRUE, text |-> json]
Base64Decodes(blob) == blob.b64
Base64Decode(blob) == blob.text


\* ------------------------------------------------------------ ureq errors
\* The ureq::Error values a request can end with. (The texts are the source's,
\* with its long dash written "-".)
UreqErrors ==
    { "StatusCode(401)", "StatusCode(404)", "StatusCode(409)", "StatusCode(422)",
      "StatusCode(500)", "Timeout", "HostNotFound", "ConnectionFailed", "Io" }

\* Fault variant: the arm for 409 is missing.
format_ureq_error_no409(e) ==
    CASE e = "StatusCode(401)" -> "Invalid or expired GitHub token"
      [] e = "StatusCode(404)" -> "Repository or file not found - check owner/repo"
      [] e = "StatusCode(409)" -> "GitHub API error (HTTP 409)"
      [] e = "StatusCode(422)" -> "Validation error - check repo name format"
      [] e = "StatusCode(500)" -> "GitHub API error (HTTP 500)"
      [] e = "Timeout" -> "Request timed out - try again"
      [] e = "HostNotFound" -> "Could not reach GitHub - check your connection"
      [] e = "ConnectionFailed" -> "Connection failed - check your connection"
      [] OTHER -> "io error"
format_ureq_error(e) ==
    CASE e = "StatusCode(401)" -> "Invalid or expired GitHub token"
      [] e = "StatusCode(404)" -> "Repository or file not found - check owner/repo"
      [] e = "StatusCode(409)" -> "SHA conflict - pull first, then push again"
      [] e = "StatusCode(422)" -> "Validation error - check repo name format"
      [] e = "StatusCode(500)" -> "GitHub API error (HTTP 500)"
      [] e = "Timeout" -> "Request timed out - try again"
      [] e = "HostNotFound" -> "Could not reach GitHub - check your connection"
      [] e = "ConnectionFailed" -> "Connection failed - check your connection"
      [] OTHER -> "io error"

\* Failures of a request that are decided by the network or the credential,
\* not by the state of the remote file.
NetFailures == { "StatusCode(401)", "Timeout" }

\* ------------------------------------------------- sync status indicator
\* The words updateSyncStatus looks for (msg.indexOf) in each text the
\* program can display.
Words(text) ==
    CASE text \in {"Pushed successfully", "Pulled successfully"} -> {"successfully"}
      [] text \in {"Push failed: ", "Pull failed: ", "Sync failed: "} -> {"failed"}
      [] text = "No token configured - open Settings" -> {"No token"}
      [] text = "No repo configured - open Settings" -> {"No repo"}
      [] text = "Repository or file not found - check owner/repo" -> {"not found"}
      [] text = "Validation error - check repo name format" -> {"error"}
      [] text = "GitHub API error (HTTP 500)" -> {"error"}
      [] text = "Connection failed - check your connection" -> {"failed"}
      [] text = "io error" -> {"error"}
      [] text = "Failed to parse bookmarks" -> {}
      [] OTHER -> {}
Contains(msg, word) == \E i \in 1..Len(msg) : word \in Words(msg[i])

\* updateSyncStatus(msg) with no explicit type: the type is read off the text.
StatusType(msg) ==
    IF Contains(msg, "successfully") \/ Contains(msg, "Last synced") THEN "success"
    ELSE IF \/ Contains(msg, "failed") \/ Contains(msg, "error")
            \/ Contains(msg, "No token") \/ Contains(msg, "No repo")
            \/ Contains(msg, "not found") THEN "error"
    ELSE "progress"

\* The delays of the two setTimeout calls, in seconds.
SuccessDwell == 5
ErrorDwell == 8
\* Fault variant: every status gets the success timer.
DwellAlways(type) == SuccessDwell
\* The timer updateSyncStatus sets for a status type; 0 when it sets none.
Dwell(type) ==
    CASE type = "success" -> SuccessDwell
      [] type = "error" -> ErrorDwell
      [] OTHER -> 0
\* if (syncTimer) { clearTimeout(syncTimer); syncTimer = null; }
clearTimeout(st) == [st EXCEPT !.syncTimer = 0, !.elapsed = 0]

\* The status element: its text, its status-<type> class, whether it has the
\* class active, the delay of the pending timer (0: none) and the time the
\* timer has run.
IdleStatus == [msg |-> <<>>, type |-> "none", active |-> FALSE, syncTimer |-> 0, elapsed |-> 0]

\* ------------------------------------------------------------------ inputs
GitHubTokens == { "", "tok" }
GitHubRepos == { "", "o/r1", "o/r2" }
Repos == GitHubRepos \ { "" }
FolderNames == { "Work" }
NewBookmarks == { Bookmark("n", "u") }

\* What another writer of the remote file may put there: a bookmarks file
\* written without the `expanded` key, and content that is no bookmarks file.
OtherJson ==
    JObj(<< KV("folders", JArr(<< JObj(<< KV("name", JStr("Shared")),
                                          KV("bookmarks", JArr(<< >>)) >>) >>)) >>)
OtherBlobs == { Base64Encode(OtherJson), Base64Encode(JStr("junk")) }

InitStores == { BookmarkStore(<< Folder("News", TRUE, << Bookmark("Hacker News", "https://news.ycombinator.com/") >>) >>) }
InitSettings == { DefaultSettings, Settings("tok", "o/r1") }

AbsentFile == [exists |-> FALSE, content |-> Base64Encode(JStr("")), ver |-> 0]
InitRemotes ==
    { [r \in Repos |-> AbsentFile],
      [r \in Repos |-> IF r = "o/r1"
                       THEN [exists |-> TRUE, content |-> Base64Encode(OtherJson), ver |-> 1]
                       ELSE AbsentFile] }

\* ------------------------------------------------------------------- state
VARIABLES
    store,             \* main: the in-memory BookmarkStore
    disk,              \* the content of bookmarks.json
    settings,          \* main: the in-memory Settings
    settings_disk,     \* the content of settings.json, if the file exists
    remote_sha,        \* main: Option<String>, the conflict token
    sync_in_progress,  \* main: bool
    queue,             \* the event loop's queue of UserEvents
    workers,           \* the running background threads
    remote,            \* per repository, the remote bookmarks.json
    syncStatus,        \* the sidebar's sync status element
    outcome,           \* how the event handled last was answered, if a sync request
    retry,             \* progress of a conflict -> pull -> push sequence
    save_result,       \* how the last call of store.save() ended
    userEdits, syncCmds, remoteEdits

vars == << store, disk, save_result, settings, settings_disk, remote_sha, sync_in_progress, queue, workers,
           remote, syncStatus, outcome, retry,
           userEdits, syncCmds, remoteEdits >>

\* updateSyncStatus(msg) for a text: what the status element becomes.
updateSyncStatus(msg) ==
    LET type == StatusType(msg)
        cleared == clearTimeout(syncStatus)
    IN [ msg |-> msg, type |-> type, active |-> TRUE,
         syncTimer |-> IF Dwell(type) > 0 THEN Dwell(type) ELSE cleared.syncTimer,
         elapsed |-> IF Dwell(type) > 0 THEN 0 ELSE cleared.elapsed ]
\* updateSyncStatus(null): the element loses its classes, the text stays.
updateSyncStatusNull ==
    [ clearTimeout(syncStatus) EXCEPT !.type = "none", !.active = FALSE ]

Outcome(req, result) == [req |-> req, result |-> result]
NoRequest == Outcome("none", "none")
RetryIdle == [stage |-> "idle", tok |-> None, sent |-> None, res |-> "none"]

Init ==
    /\ store \in InitStores
    /\ disk = ToJson(store)
    /\ save_result = "Ok"
    /\ settings \in InitSettings
    /\ settings_disk = IF settings = DefaultSettings THEN None
                                                     ELSE Some(SettingsToJson(settings))
    /\ remote_sha = None
    /\ sync_in_progress = FALSE
    /\ queue = << >>
    /\ workers = << >>
    /\ remote \in InitRemotes
    /\ syncStatus = IdleStatus
    /\ outcome = NoRequest
    /\ retry = RetryIdle
    /\ userEdits = 0 /\ syncCmds = 0 /\ remoteEdits = 0


\* ----------------------------------------------------------- Vec helpers
\* Vec::remove(i) on a 0-based index i < len.
RemoveAt(seq, i) == SubSeq(seq, 1, i) \o SubSeq(seq, i + 2, Len(seq))

\* ------------------------------------------------------ document mutations
\* The store each mutation handler leaves behind; the store itself when the
\* handler's bounds check (get_mut / index < len) fails.
FolderValid(s, index) == index < Len(s.folders)
\* Fault variant: the bookmark index is not tested.
BookmarkValidFolderOnly(s, folder_index, bookmark_index) ==
    FolderValid(s, folder_index)
BookmarkValid(s, folder_index, bookmark_index) ==
    /\ FolderValid(s, folder_index)
    /\ bookmark_index < Len(s.folders[folder_index + 1].bookmarks)

toggle_folder(s, index) ==
    IF FolderValid(s, index)
    THEN [s EXCEPT !.folders[index + 1].expanded = ~@]
    ELSE s
\* Fault variant: the new folder is put first.
add_folder_first(s, name) ==
    [s EXCEPT !.folders = << Folder(name, TRUE, << >>) >> \o @]
add_folder(s, name) ==
    [s EXCEPT !.folders = Append(@, Folder(name, TRUE, << >>))]
\* Fault variant: the new bookmark is put first.
add_bookmark_first(s, folder_index, name, url) ==
    IF FolderValid(s, folder_index)
    THEN [s EXCEPT !.folders[folder_index + 1].bookmarks = << Bookmark(name, url) >> \o @]
    ELSE s
add_bookmark(s, folder_index, name, url) ==
    IF FolderValid(s, folder_index)
    THEN [s EXCEPT !.folders[folder_index + 1].bookmarks = Append(@, Bookmark(name, url))]
    ELSE s
\* Fault variant: the last bookmark is removed, whatever the index.
delete_bookmark_last(s, folder_index, bookmark_index) ==
    IF BookmarkValid(s, folder_index, bookmark_index)
    THEN [s EXCEPT !.folders[folder_index + 1].bookmarks = SubSeq(@, 1, Len(@) - 1)]
    ELSE s
delete_bookmark(s, folder_index, bookmark_index) ==
    IF BookmarkValid(s, folder_index, bookmark_index)
    THEN [s EXCEPT !.folders[folder_index + 1].bookmarks = RemoveAt(@, bookmark_index)]
    ELSE s
\* Fault variant: the last folder is removed, whatever the index.
delete_folder_last(s, index) ==
    IF FolderValid(s, index)
    THEN [s EXCEPT !.folders = SubSeq(@, 1, Len(@) - 1)]
    ELSE s
delete_folder(s, index) ==
    IF FolderValid(s, index)
    THEN [s EXCEPT !.folders = RemoveAt(@, index)]
    ELSE s

\* ------------------------------------------------------------ persistence
\* What a file can be besides JSON: missing, unreadable, or text that does
\* not parse.
NoFile == [t |-> "missing", v |-> << >>]
UnreadableFile == [t |-> "unreadable", v |-> << >>]
NotJson == [t |-> "invalid", v |-> << "{ not json" >>]

\* fs::write(path, json) opens the file truncating it and then writes: it
\* ends Ok with the new content, fails at the open with the file as it was,
\* or fails while writing with a part of the new text in the file.
FsWriteResults == { "Ok", "OpenFailed", "WriteFailed" }
fs_write(old, new, r) ==
    CASE r = "Ok" -> new
      [] r = "OpenFailed" -> old
      [] r = "WriteFailed" -> NotJson

\* settings.save() of Settings s: what settings.json is afterwards.
settings_save_to(s, r) ==
    IF r = "OpenFailed" THEN settings_disk
    ELSE Some(fs_write(NoFile, SettingsToJson(s), r))

\* Fault variant: the handler does not call save.
save_skipped(r) == UNCHANGED << disk, save_result >>
\* store.save() of the new store; Err is ignored by every caller
\* (let _ = store.save()).
save(r) ==
    /\ disk' = fs_write(disk, ToJson(store'), r)
    /\ save_result' = r

\* ---------------------------------------------------------- the event loop
HeadIs(type) == queue # << >> /\ Head(queue).type = type
Event(type) == [type |-> type]

DocCommands ==
    LET folderIdx == 0..Len(store.folders)
        bookmarkIdx(fi) == IF FolderValid(store, fi)
                           THEN 0..Len(store.folders[fi + 1].bookmarks)
                           ELSE {0}
    IN  { [type |-> "ToggleFolder", index |-> i] : i \in folderIdx }
        \cup { [type |-> "AddFolder", name |-> n] : n \in FolderNames }
        \cup { [type |-> "AddBookmark", folder_index |-> i, name |-> b.name, url |-> b.url] :
                 i \in folderIdx, b \in NewBookmarks }
        \cup UNION { { [type |-> "DeleteBookmark", folder_index |-> i, bookmark_index |-> j] :
                         j \in bookmarkIdx(i) } : i \in folderIdx }
        \cup { [type |-> "DeleteFolder", index |-> i] : i \in folderIdx }

SettingsCommands ==
    { [type |-> "SaveSettings", github_token |-> t, github_repo |-> r] :
        t \in GitHubTokens, r \in GitHubRepos }

SyncCommands == { Event("PushToGitHub"), Event("PullFromGitHub") }

\* The sidebar's ipc handler (and the Ctrl+U / Ctrl+I shortcuts): a command of
\* the user becomes a UserEvent at the back of the queue.
ipc_handler ==
    /\ Len(queue) < MaxQueue
    /\ \/ /\ userEdits < MaxUserEdits
          /\ \E e \in DocCommands \cup SettingsCommands : queue' = Append(queue, e)
          /\ userEdits' = userEdits + 1
          /\ UNCHANGED syncCmds
       \/ /\ syncCmds < MaxSyncCmds
          /\ \E e \in SyncCommands : queue' = Append(queue, e)
          /\ syncCmds' = syncCmds + 1
          /\ UNCHANGED userEdits
    /\ UNCHANGED << store, disk, save_result, settings, settings_disk, remote_sha, sync_in_progress, workers,
                    remote, syncStatus, outcome, retry, remoteEdits >>

\* What every document handler leaves alone.
DocFrame ==
    /\ outcome' = NoRequest
    /\ UNCHANGED << settings, settings_disk, remote_sha, sync_in_progress, workers, remote, syncStatus,
                    retry, userEdits, syncCmds, remoteEdits >>

ToggleFolder ==
    /\ HeadIs("ToggleFolder")
    /\ LET index == Head(queue).index IN
       IF FolderValid(store, index)
       THEN /\ store' = toggle_folder(store, index)
            /\ \E r \in FsWriteResults : save(r)
            /\ queue' = Tail(queue)
       ELSE /\ queue' = Tail(queue)
            /\ UNCHANGED << store, disk, save_result >>
    /\ DocFrame

AddFolder ==
    /\ HeadIs("AddFolder")
    /\ store' = add_folder(store, Head(queue).name)
    /\ \E r \in FsWriteResults : save(r)
    /\ queue' = Append(Tail(queue), Event("AutoSync"))
    /\ DocFrame

AddBookmark ==
    /\ HeadIs("AddBookmark")
    /\ LET e == Head(queue) IN
       IF FolderValid(store, e.folder_index)
       THEN /\ store' = add_bookmark(store, e.folder_index, e.name, e.url)
            /\ \E r \in FsWriteResults : save(r)
            /\ queue' = Append(Tail(queue), Event("AutoSync"))
       ELSE /\ queue' = Tail(queue)
            /\ UNCHANGED << store, disk, save_result >>
    /\ DocFrame

DeleteBookmark ==
    /\ HeadIs("DeleteBookmark")
    /\ LET e == Head(queue) IN
       IF BookmarkValid(store, e.folder_index, e.bookmark_index)
       THEN /\ store' = delete_bookmark(store, e.folder_index, e.bookmark_index)
            /\ \E r \in FsWriteResults : save(r)
            /\ queue' = Append(Tail(queue), Event("AutoSync"))
       ELSE /\ queue' = Tail(queue)
            /\ UNCHANGED << store, disk, save_result >>
    /\ DocFrame

DeleteFolder ==
    /\ HeadIs("DeleteFolder")
    /\ LET index == Head(queue).index IN
       IF FolderValid(store, index)
       THEN /\ store' = delete_folder(store, index)
            /\ \E r \in FsWriteResults : save(r)
            /\ queue' = Append(Tail(queue), Event("AutoSync"))
       ELSE /\ queue' = Tail(queue)
            /\ UNCHANGED << store, disk, save_result >>
    /\ DocFrame


\* What the settings and sync handlers leave alone.
SyncFrame == UNCHANGED << store, disk, save_result, remote, userEdits, syncCmds, remoteEdits >>

\* if settings.github_repo != github_repo { remote_sha = None; }
\* Fault variant: every SaveSettings counts as a change of repository.
RepoChangedAlways(github_repo) == TRUE
\* Fault variant: a new token counts as a change of repository.
RepoOrTokenChanged(github_repo) ==
    \/ settings.github_repo # github_repo
    \/ Head(queue).github_token \notin { "", settings.github_token }
RepoChanged(github_repo) == settings.github_repo # github_repo

\* Fault variant: the submitted token is stored also when it is empty.
github_token_always(github_token) == github_token
\* The token SaveSettings stores: the submitted one unless it is empty.
github_token_stored(github_token) ==
    IF github_token # "" THEN github_token ELSE settings.github_token

SaveSettings ==
    /\ HeadIs("SaveSettings")
    /\ LET e == Head(queue) IN
       /\ settings' = Settings(github_token_stored(e.github_token), e.github_repo)
       /\ remote_sha' = IF RepoChanged(e.github_repo) THEN None ELSE remote_sha
       /\ \E r \in FsWriteResults :
             settings_disk' = settings_save_to(settings', r)
       /\ retry' = IF RepoChanged(e.github_repo) THEN RetryIdle ELSE retry
    /\ queue' = Tail(queue)
    /\ outcome' = NoRequest
    /\ UNCHANGED << sync_in_progress, workers, syncStatus >>
    /\ SyncFrame

\* The guards of a push or pull request, in the order the handler tests them.
NoToken == settings.github_token = ""
\* Fault variant: the empty-repository guard is missing.
NoRepoNever == FALSE
NoRepo == settings.github_repo = ""
\* Fault variant: PushToGitHub does not test sync_in_progress.
PushNeverBusy == FALSE
PushBusy == sync_in_progress
PullBusy == sync_in_progress
\* Fault variant: AutoSync does not test sync_in_progress.
AutoSyncNeverBusy == FALSE
AutoSyncBusy == sync_in_progress

\* A request that ends at a guard: the status text it shows, if any.
Rejected(req, result, msg) ==
    /\ outcome' = Outcome(req, result)
    /\ syncStatus' = IF msg = << >> THEN syncStatus ELSE updateSyncStatus(msg)
    /\ queue' = Tail(queue)
    /\ UNCHANGED << settings, settings_disk, remote_sha, sync_in_progress, workers, retry >>

\* do_push resolves the sha it sends: the caller's, or the probed one.
\* Fault variants: do_push probes even when given a sha / never probes.
AlwaysProbe(sha) == TRUE
NeverProbe(sha) == FALSE
NeedsProbe(sha) == sha = None

\* Fault variant: the thread is given the content of bookmarks.json.
NewWorkerFromDisk(kind) ==
    LET sha == IF kind = "pull" THEN None ELSE remote_sha IN
    [ kind |-> kind,
      token |-> settings.github_token,
      repo |-> settings.github_repo,
      sha |-> sha,
      bookmarks_json |-> IF kind = "pull" THEN JStr("") ELSE disk,
      pc |-> IF kind = "pull" THEN "get" ELSE IF NeedsProbe(sha) THEN "probe" ELSE "put",
      cur |-> sha,
      probe |-> "none" ]

\* The values a worker thread is spawned with (the clones moved into it).
NewWorker(kind) ==
    LET sha == IF kind = "pull" THEN None ELSE remote_sha IN
    [ kind |-> kind,
      token |-> settings.github_token,
      repo |-> settings.github_repo,
      sha |-> sha,
      bookmarks_json |-> IF kind = "pull" THEN JStr("") ELSE ToJson(store),
      pc |-> IF kind = "pull" THEN "get" ELSE IF NeedsProbe(sha) THEN "probe" ELSE "put",
      cur |-> sha,
      probe |-> "none" ]

\* Fault variant: the handler spawns the thread without setting the flag.
SpawnNoFlag(kind) ==
    /\ sync_in_progress' = sync_in_progress
    /\ workers' = Append(workers, NewWorker(kind))
    /\ outcome' = Outcome(kind, "Started")
    /\ queue' = Tail(queue)
    /\ UNCHANGED << settings, settings_disk, remote_sha >>

Spawn(kind) ==
    /\ sync_in_progress' = TRUE
    /\ workers' = Append(workers, NewWorker(kind))
    /\ outcome' = Outcome(kind, "Started")
    /\ queue' = Tail(queue)
    /\ UNCHANGED << settings, settings_disk, remote_sha >>

PushToGitHub ==
    /\ HeadIs("PushToGitHub")
    /\ IF NoToken THEN Rejected("push", "NoCredential", << "No token configured - open Settings" >>)
       ELSE IF NoRepo THEN Rejected("push", "NoLocation", << "No repo configured - open Settings" >>)
       ELSE IF PushBusy THEN Rejected("push", "AlreadyInProgress", << >>)
       ELSE /\ Spawn("push")
            /\ syncStatus' = updateSyncStatus(<< "Pushing..." >>)
            /\ retry' = IF retry.stage = "pulled" THEN [retry EXCEPT !.stage = "pushing"]
                                                  ELSE RetryIdle
    /\ SyncFrame

PullFromGitHub ==
    /\ HeadIs("PullFromGitHub")
    /\ IF NoToken THEN Rejected("pull", "NoCredential", << "No token configured - open Settings" >>)
       ELSE IF NoRepo THEN Rejected("pull", "NoLocation", << "No repo configured - open Settings" >>)
       ELSE IF PullBusy THEN Rejected("pull", "AlreadyInProgress", << >>)
       ELSE /\ Spawn("pull")
            /\ syncStatus' = updateSyncStatus(<< "Pulling..." >>)
            /\ retry' = IF retry.stage = "conflict" THEN [retry EXCEPT !.stage = "pulling"]
                                                    ELSE RetryIdle
    /\ SyncFrame

\* Fault variant: AutoSync reports a missing token like a push does.
AutoSyncReports ==
    /\ HeadIs("AutoSync")
    /\ IF NoToken THEN Rejected("auto", "Skipped", << "No token configured - open Settings" >>)
       ELSE IF AutoSyncBusy \/ NoRepo THEN Rejected("auto", "Skipped", << >>)
       ELSE /\ Spawn("auto")
            /\ retry' = RetryIdle
            /\ UNCHANGED syncStatus
    /\ SyncFrame

AutoSync ==
    /\ HeadIs("AutoSync")
    /\ IF AutoSyncBusy \/ NoToken \/ NoRepo
       THEN Rejected("auto", "Skipped", << >>)
       ELSE /\ Spawn("auto")
            /\ retry' = RetryIdle
            /\ UNCHANGED syncStatus
    /\ SyncFrame

\* A completion message is a push conflict when it is the push or autosync
\* failure text of a 409.
IsConflictMsg(msg) ==
    /\ Len(msg) = 2
    /\ msg[1] \in { "Push failed: ", "Sync failed: " }
    /\ msg[2] = format_ureq_error("StatusCode(409)")

\* Fault variant: the failure handler also forgets remote_sha.
SyncStatusClearsToken ==
    /\ HeadIs("SyncStatus")
    /\ sync_in_progress' = FALSE
    /\ remote_sha' = None
    /\ syncStatus' = updateSyncStatus(Head(queue).msg)
    /\ retry' = RetryIdle
    /\ queue' = Tail(queue)
    /\ outcome' = NoRequest
    /\ UNCHANGED << store, disk, save_result, settings, settings_disk, workers, remote,
                    userEdits, syncCmds, remoteEdits >>

SyncStatus ==
    /\ HeadIs("SyncStatus")
    /\ sync_in_progress' = FALSE
    /\ syncStatus' = updateSyncStatus(Head(queue).msg)
    /\ retry' = IF IsConflictMsg(Head(queue).msg)
                THEN [RetryIdle EXCEPT !.stage = "conflict"] ELSE RetryIdle
    /\ queue' = Tail(queue)
    /\ outcome' = NoRequest
    /\ UNCHANGED << store, disk, save_result, settings, settings_disk, remote_sha, workers, remote,
                    userEdits, syncCmds, remoteEdits >>

\* Fault variant: the handler does not store the returned sha.
PushCompleteKeepsToken ==
    /\ HeadIs("PushComplete")
    /\ sync_in_progress' = FALSE
    /\ syncStatus' = updateSyncStatus(<< "Pushed successfully" >>)
    /\ retry' = RetryIdle
    /\ queue' = Tail(queue)
    /\ outcome' = NoRequest
    /\ UNCHANGED << store, disk, save_result, settings, settings_disk, remote_sha, workers, remote,
                    userEdits, syncCmds, remoteEdits >>

PushComplete ==
    /\ HeadIs("PushComplete")
    /\ sync_in_progress' = FALSE
    /\ remote_sha' = Head(queue).new_sha
    /\ syncStatus' = updateSyncStatus(<< "Pushed successfully" >>)
    /\ retry' = RetryIdle
    /\ queue' = Tail(queue)
    /\ outcome' = NoRequest
    /\ UNCHANGED << store, disk, save_result, settings, settings_disk, workers, remote,
                    userEdits, syncCmds, remoteEdits >>

\* Fault variant: the pulled folders are appended to the local ones.
PullCompleteMerges ==
    /\ HeadIs("PullComplete")
    /\ sync_in_progress' = FALSE
    /\ remote_sha' = Some(Head(queue).sha)
    /\ store' = BookmarkStore(store.folders \o Head(queue).new_store.folders)
    /\ \E r \in FsWriteResults : save(r)
    /\ syncStatus' = updateSyncStatus(<< "Pulled successfully" >>)
    /\ retry' = IF retry.stage = "fetched" THEN [retry EXCEPT !.stage = "pulled"]
                                           ELSE RetryIdle
    /\ queue' = Tail(queue)
    /\ outcome' = NoRequest
    /\ UNCHANGED << settings, settings_disk, workers, remote,
                    userEdits, syncCmds, remoteEdits >>

\* Fault variant: the handler does not store the pulled sha.
PullCompleteKeepsToken ==
    /\ HeadIs("PullComplete")
    /\ sync_in_progress' = FALSE
    /\ store' = Head(queue).new_store
    /\ \E r \in FsWriteResults : save(r)
    /\ syncStatus' = updateSyncStatus(<< "Pulled successfully" >>)
    /\ retry' = IF retry.stage = "fetched" THEN [retry EXCEPT !.stage = "pulled"]
                                           ELSE RetryIdle
    /\ queue' = Tail(queue)
    /\ outcome' = NoRequest
    /\ UNCHANGED << settings, settings_disk, remote_sha, workers, remote,
                    userEdits, syncCmds, remoteEdits >>

PullComplete ==
    /\ HeadIs("PullComplete")
    /\ sync_in_progress' = FALSE
    /\ remote_sha' = Some(Head(queue).sha)
    /\ store' = Head(queue).new_store
    /\ \E r \in FsWriteResults : save(r)
    /\ syncStatus' = updateSyncStatus(<< "Pulled successfully" >>)
    /\ retry' = IF retry.stage = "fetched" THEN [retry EXCEPT !.stage = "pulled"]
                                           ELSE RetryIdle
    /\ queue' = Tail(queue)
    /\ outcome' = NoRequest
    /\ UNCHANGED << settings, settings_disk, workers, remote,
                    userEdits, syncCmds, remoteEdits >>


\* ------------------------------------------------------ the remote file
\* The version token (sha) of the file currently at a repository.
Tok(repo) == [repo |-> repo, n |-> remote[repo].ver]

\* PUT /contents/bookmarks.json: the write is taken when the sha sent names
\* the current version, or when none is sent and there is no file yet.
PutAccepted(repo, sha) ==
    IF sha = None THEN ~remote[repo].exists
    ELSE remote[repo].exists /\ sha = Some(Tok(repo))

\* The status of a write that is not taken.
PutRejections(repo, sha) ==
    IF sha = None THEN { "StatusCode(422)" }
    ELSE IF remote[repo].exists THEN { "StatusCode(409)" }
    ELSE { "StatusCode(409)", "StatusCode(422)" }

Written(repo, blob) ==
    [remote EXCEPT ![repo] = [exists |-> TRUE, content |-> blob, ver |-> @.ver + 1]]

\* Another writer replaces the remote file.
RemoteEdit ==
    /\ remoteEdits < MaxRemoteEdits
    /\ \E r \in Repos, blob \in OtherBlobs : remote' = Written(r, blob)
    /\ remoteEdits' = remoteEdits + 1
    /\ retry' = IF retry.stage \in { "fetched", "pulled", "pushing" } THEN RetryIdle ELSE retry
    /\ UNCHANGED << store, disk, save_result, settings, settings_disk, remote_sha, sync_in_progress, queue, workers,
                    syncStatus, outcome, userEdits, syncCmds >>

\* ------------------------------------------------------ worker threads
FailPrefix(kind) ==
    CASE kind = "push" -> "Push failed: "
      [] kind = "auto" -> "Sync failed: "
      [] kind = "pull" -> "Pull failed: "

\* The thread ends: it sends its one completion event and is gone.
Finish(i, w, res, returned, event) ==
    /\ workers' = RemoveAt(workers, i - 1)
    /\ queue' = Append(queue, event)
    /\ retry' = CASE retry.stage = "pushing" /\ w.kind = "push" ->
                       [retry EXCEPT !.stage = "done", !.sent = w.cur, !.res = res]
                  [] retry.stage = "pulling" /\ w.kind = "pull" ->
                       IF res = "ok" THEN [retry EXCEPT !.stage = "fetched", !.tok = returned]
                                     ELSE RetryIdle
                  [] OTHER -> retry

Fail(i, w, res, text) ==
    Finish(i, w, res, None, [type |-> "SyncStatus", msg |-> << FailPrefix(w.kind), text >>])

\* Fault variant: the thread clears the flag itself.
WorkerFrameClearsFlag ==
    /\ sync_in_progress' = FALSE
    /\ UNCHANGED << store, disk, save_result, settings, settings_disk, remote_sha, syncStatus,
                    outcome, userEdits, syncCmds, remoteEdits >>
WorkerFrame ==
    UNCHANGED << store, disk, save_result, settings, settings_disk, remote_sha, sync_in_progress, syncStatus, outcome,
                 userEdits, syncCmds, remoteEdits >>

\* do_push, first request: get_file_sha, when the caller has no sha.
get_file_sha ==
    /\ \E i \in 1..Len(workers) :
         LET w == workers[i] IN
         /\ w.pc = "probe"
         /\ \/ \E e \in NetFailures :
                  Fail(i, [w EXCEPT !.probe = "failed"], e, format_ureq_error(e))
            \/ /\ workers' = [workers EXCEPT ![i] =
                     IF remote[w.repo].exists
                     THEN [w EXCEPT !.pc = "put", !.probe = "found", !.cur = Some(Tok(w.repo))]
                     ELSE [w EXCEPT !.pc = "put", !.probe = "absent", !.cur = None]]
               /\ UNCHANGED << queue, retry >>
    /\ UNCHANGED remote
    /\ WorkerFrame

\* Fault variant: the content is encoded from the store as it is when the
\* request is sent.
encoded_at_send(w) == Base64Encode(ToJson(store))
\* do_push: the content of the payload, encoded from the thread's own string.
encoded(w) == Base64Encode(w.bookmarks_json)

\* do_push, the PUT and the reading of its response.
do_push ==
    /\ \E i \in 1..Len(workers) :
         LET w == workers[i]
             new_sha == [repo |-> w.repo, n |-> remote[w.repo].ver + 1]
         IN
         /\ w.pc = "put"
         /\ \/ /\ \E e \in NetFailures : Fail(i, w, e, format_ureq_error(e))
               /\ UNCHANGED remote
            \/ /\ ~PutAccepted(w.repo, w.cur)
               /\ \E e \in PutRejections(w.repo, w.cur) : Fail(i, w, e, format_ureq_error(e))
               /\ UNCHANGED remote
            \/ /\ PutAccepted(w.repo, w.cur)
               /\ remote' = Written(w.repo, encoded(w))
               /\ \/ Finish(i, w, "ok", Some(new_sha),
                            [type |-> "PushComplete", new_sha |-> Some(new_sha)])
                  \/ Fail(i, w, "Malformed", "Malformed response from GitHub")
    /\ WorkerFrame

\* do_pull: the GET, then decoding and parsing of the content.
do_pull ==
    /\ \E i \in 1..Len(workers) :
         LET w == workers[i]
             f == remote[w.repo]
         IN
         /\ w.pc = "get"
         /\ \/ \E e \in NetFailures : Fail(i, w, e, format_ureq_error(e))
            \/ /\ ~f.exists
               /\ Fail(i, w, "StatusCode(404)", format_ureq_error("StatusCode(404)"))
            \/ /\ f.exists
               /\ IF ~Base64Decodes(f.content)
                  THEN Fail(i, w, "Decode", "Failed to decode content")
                  ELSE IF ~StoreParses(Base64Decode(f.content))
                  THEN Fail(i, w, "Parse", "Failed to parse bookmarks")
                  ELSE Finish(i, w, "ok", Some(Tok(w.repo)),
                              [type |-> "PullComplete",
                               new_store |-> FromJson(Base64Decode(f.content)),
                               sha |-> Tok(w.repo)])
    /\ UNCHANGED remote
    /\ WorkerFrame

\* ----------------------------------------------------- the status element
StatusFrame ==
    UNCHANGED << store, disk, save_result, settings, settings_disk, remote_sha, sync_in_progress, queue,
                 workers, remote, outcome, retry, userEdits, syncCmds, remoteEdits >>

\* A second passes while a timer is pending; when the delay is over the
\* timer's callback removes the class active.
syncTimer_tick ==
    /\ syncStatus.syncTimer > 0
    /\ syncStatus' = IF syncStatus.elapsed + 1 >= syncStatus.syncTimer
                      THEN [syncStatus EXCEPT !.active = FALSE, !.syncTimer = 0, !.elapsed = 0]
                      ELSE [syncStatus EXCEPT !.elapsed = @ + 1]
    /\ StatusFrame

\* The click listener of the status element.
syncStatus_click ==
    /\ syncStatus.active
    /\ syncStatus' = updateSyncStatusNull
    /\ StatusFrame

\* ------------------------------------------------------------ specification
Next ==
    \/ ipc_handler
    \/ ToggleFolder
    \/ AddFolder
    \/ AddBookmark
    \/ DeleteBookmark
    \/ DeleteFolder
    \/ SaveSettings
    \/ PushToGitHub
    \/ PullFromGitHub
    \/ AutoSync
    \/ SyncStatus
    \/ PushComplete
    \/ PullComplete
    \/ get_file_sha
    \/ do_push
    \/ do_pull
    \/ RemoteEdit

Spec == Init /\ [][Next]_vars

\* The sync operations with every error a request can end with, the
\* sidebar's clock and the user's clicks on the status element, started with a
\* token and a repository configured.
InitStatus ==
    /\ Init
    /\ settings = Settings("tok", "o/r1")
    /\ remote = [r \in Repos |-> AbsentFile]
\* A request ends with one of the errors that neither the credential nor the
\* state of the remote file decides (a 404 of get_file_sha is no error).
OtherFailures ==
    { "StatusCode(404)", "StatusCode(500)", "HostNotFound", "ConnectionFailed", "Io" }
call_fails ==
    /\ \E i \in 1..Len(workers), e \in OtherFailures :
         /\ workers[i].pc \in { "probe", "put", "get" }
         /\ workers[i].pc = "probe" => e # "StatusCode(404)"
         /\ Fail(i, workers[i], e, format_ureq_error(e))
    /\ UNCHANGED remote
    /\ WorkerFrame

\* A sync event reaches the queue: a command of the sidebar, or the AutoSync
\* a mutation handler sends.
sync_event_sent ==
    /\ Len(queue) < MaxQueue
    /\ syncCmds < MaxSyncCmds
    /\ \E e \in SyncCommands \cup { Event("AutoSync") } : queue' = Append(queue, e)
    /\ syncCmds' = syncCmds + 1
    /\ UNCHANGED << store, disk, save_result, settings, settings_disk, remote_sha,
                    sync_in_progress, workers, remote, syncStatus, outcome, retry,
                    userEdits, remoteEdits >>
NextStatus ==
    \/ sync_event_sent
    \/ PushToGitHub
    \/ PullFromGitHub
    \/ AutoSync
    \/ SyncStatus
    \/ PushComplete
    \/ PullComplete
    \/ get_file_sha
    \/ do_push
    \/ do_pull
    \/ call_fails
    \/ RemoteEdit
    \/ syncTimer_tick
    \/ syncStatus_click
SpecStatus == InitStatus /\ [][NextStatus]_vars

\* The agents are built with new_with_defaults() and no timeout is set on
\* them or on a request: a call whose peer never answers does not return.
call_blocks ==
    /\ \E i \in 1..Len(workers) :
         /\ workers[i].pc \in { "probe", "put", "get" }
         /\ workers' = [workers EXCEPT ![i].pc = "blocked"]
    /\ UNCHANGED << queue, retry, remote >>
    /\ WorkerFrame

\* The program under fair scheduling: the event loop handles the event at
\* the head of its queue, and a thread whose call returns goes on.
NextLive ==
    \/ Next
    \/ call_blocks
Fairness ==
    /\ WF_vars(ToggleFolder \/ AddFolder \/ AddBookmark \/ DeleteBookmark \/ DeleteFolder
                 \/ SaveSettings \/ PushToGitHub \/ PullFromGitHub \/ AutoSync
                 \/ SyncStatus \/ PushComplete \/ PullComplete)
    /\ WF_vars(get_file_sha \/ do_push \/ do_pull)
SpecLive == InitStatus /\ [][NextLive]_vars /\ Fairness

\* The program left to its autosync, under the same fair scheduling: the user
\* only adds and deletes folders and bookmarks, nobody else writes the
\* remote file.
ipc_mutation ==
    /\ Len(queue) < MaxQueue
    /\ userEdits < MaxMutations
    /\ \E e \in { c \in DocCommands : c.type # "ToggleFolder" } : queue' = Append(queue, e)
    /\ userEdits' = userEdits + 1
    /\ UNCHANGED << store, disk, save_result, settings, settings_disk, remote_sha,
                    sync_in_progress, workers, remote, syncStatus, outcome, retry,
                    syncCmds, remoteEdits >>
NextAuto ==
    \/ ipc_mutation
    \/ AddFolder
    \/ AddBookmark
    \/ DeleteBookmark
    \/ DeleteFolder
    \/ AutoSync
    \/ SyncStatus
    \/ PushComplete
    \/ get_file_sha
    \/ do_push
SpecAuto == InitStatus /\ [][NextAuto]_vars /\ Fairness

\* ------------------------------------------------ the settings dialog
\* The user saves settings up to MaxSettingsEdits times, with no token, the
\* stored one or a new one and any repository, between pushes and pulls.
ipc_save_settings ==
    /\ Len(queue) < MaxQueue
    /\ userEdits < MaxSettingsEdits
    /\ \E t \in GitHubTokens \cup { "tok2" }, r \in GitHubRepos :
          queue' = Append(queue, [type |-> "SaveSettings", github_token |-> t,
                                  github_repo |-> r])
    /\ userEdits' = userEdits + 1
    /\ UNCHANGED << store, disk, save_result, settings, settings_disk, remote_sha,
                    sync_in_progress, workers, remote, syncStatus, outcome, retry,
                    syncCmds, remoteEdits >>
NextSettings ==
    \/ ipc_save_settings
    \/ sync_event_sent
    \/ SaveSettings
    \/ PushToGitHub
    \/ PullFromGitHub
    \/ AutoSync
    \/ SyncStatus
    \/ PushComplete
    \/ PullComplete
    \/ get_file_sha
    \/ do_push
    \/ do_pull
SpecSettings == Init /\ [][NextSettings]_vars

\* ------------------------------------------- the document commands alone
\* Documents of up to MaxFolders folders, a folder holding up to MaxBookmarks
\* bookmarks, no folder twice: the folder with k bookmarks has the k-th name,
\* the first k bookmarks of the pool, and is expanded when k is even.
BookmarkPool ==
    << Bookmark("The Rust Programming Language", "https://doc.rust-lang.org/book/"),
       Bookmark("Arch Wiki", "https://wiki.archlinux.org/"),
       Bookmark("Hacker News", "https://news.ycombinator.com/"),
       Bookmark("Crates", "https://crates.io/"),
       Bookmark("Docs", "https://docs.rs/") >>
FolderPoolNames == << "Empty", "Documentation", "News", "Tools", "Misc", "More" >>
FolderPool ==
    { Folder(FolderPoolNames[k + 1], k % 2 = 0, SubSeq(BookmarkPool, 1, k)) :
        k \in 0..MaxBookmarks }
Docs ==
    { BookmarkStore(f) :
        f \in UNION { { g \in [1..n -> FolderPool] :
                          \A i, j \in 1..n : i # j => g[i] # g[j] } :
                      n \in 0..MaxFolders } }

InitDoc ==
    /\ store \in Docs
    /\ disk = ToJson(store)
    /\ save_result = "Ok"
    /\ settings = DefaultSettings
    /\ settings_disk = None
    /\ remote_sha = None
    /\ sync_in_progress = FALSE
    /\ queue = << >>
    /\ workers = << >>
    /\ remote = [r \in Repos |-> AbsentFile]
    /\ syncStatus = IdleStatus
    /\ outcome = NoRequest
    /\ retry = RetryIdle
    /\ userEdits = 0 /\ syncCmds = 0 /\ remoteEdits = 0

\* The ipc handler, for the document commands only.
ipc_document_command ==
    /\ Len(queue) < MaxQueue
    /\ userEdits < MaxUserEdits
    /\ \E e \in DocCommands : queue' = Append(queue, e)
    /\ userEdits' = userEdits + 1
    /\ UNCHANGED << store, disk, save_result, settings, settings_disk, remote_sha, sync_in_progress, workers,
                    remote, syncStatus, outcome, retry, syncCmds, remoteEdits >>

NextDoc ==
    \/ ipc_document_command
    \/ ToggleFolder
    \/ AddFolder
    \/ AddBookmark
    \/ DeleteBookmark
    \/ DeleteFolder
    \/ AutoSync

SpecDoc == InitDoc /\ [][NextDoc]_vars

\* ------------------------------------------------ load and save alone
\* What can be found where a file is expected: no file, a file that cannot
\* be read as text, and text that is no JSON.

\* BookmarkStore::load_from: read_to_string(..).ok(), from_str(..).ok(),
\* unwrap_or_else(default_store).
\* Fault variant: a file that does not parse gives an empty store.
BookmarkStore_load_from_empty(file) ==
    IF StoreParses(file) THEN FromJson(file) ELSE BookmarkStore(<< >>)
BookmarkStore_load_from(file) ==
    IF StoreParses(file) THEN FromJson(file) ELSE default_store

\* serde_json::from_str::<Settings>: every field is serde(default), a field
\* that is present must have its type.
IsBoolField(obj, k) == HasKey(obj, k) /\ GetKey(obj, k).t = "bool"
SettingsParses(j) ==
    /\ j.t = "obj"
    /\ HasKey(j, "sidebar_collapsed") => IsBoolField(j, "sidebar_collapsed")
    /\ \A k \in { "github_token", "github_repo", "github_gist_id" } :
         HasKey(j, k) => IsStrField(j, k)
StrOrDefault(j, k) == IF HasKey(j, k) THEN GetKey(j, k).v[1] ELSE ""
\* Fault variant: the repository is read under another key.
SettingsFromJsonOtherKey(j) ==
    [ sidebar_collapsed |-> IF HasKey(j, "sidebar_collapsed")
                            THEN GetKey(j, "sidebar_collapsed").v[1] ELSE FALSE,
      github_token |-> StrOrDefault(j, "github_token"),
      github_repo |-> StrOrDefault(j, "repo"),
      github_gist_id |-> StrOrDefault(j, "github_gist_id") ]
SettingsFromJson(j) ==
    [ sidebar_collapsed |-> IF HasKey(j, "sidebar_collapsed")
                            THEN GetKey(j, "sidebar_collapsed").v[1] ELSE FALSE,
      github_token |-> StrOrDefault(j, "github_token"),
      github_repo |-> StrOrDefault(j, "github_repo"),
      github_gist_id |-> StrOrDefault(j, "github_gist_id") ]
\* Settings::load_from, of the settings file if there is one.
Settings_load_from(file) ==
    IF IsSome(file) /\ SettingsParses(Unwrap(file))
    THEN SettingsFromJson(Unwrap(file))
    ELSE DefaultSettings

\* Files that do not hold a BookmarkStore, and files that do: one written
\* before `expanded` existed, and what save_to writes.
BadBookmarkFiles ==
    { NoFile, UnreadableFile, NotJson, JStr("junk"), JObj(<< >>),
      JObj(<< KV("folders", JArr(<< JObj(<< KV("bookmarks", JArr(<< >>)) >>) >>)) >>) }
SettingsPool ==
    { DefaultSettings,
      [ sidebar_collapsed |-> TRUE, github_token |-> "test-token",
        github_repo |-> "user/bookmarks", github_gist_id |-> "" ],
      [ sidebar_collapsed |-> FALSE, github_token |-> "tok",
        github_repo |-> "", github_gist_id |-> "abc123" ] }
LegacySettingsJson ==
    JObj(<< KV("sidebar_collapsed", JBool(FALSE)),
            KV("github_token", JStr("tok")),
            KV("github_gist_id", JStr("abc123")) >>)
BadSettingsFiles ==
    { None, Some(UnreadableFile), Some(NotJson), Some(JArr(<< >>)),
      Some(JObj(<< KV("github_token", JBool(TRUE)) >>)) }
SettingsFiles ==
    BadSettingsFiles \cup { Some(LegacySettingsJson), Some(JObj(<< >>)) }

InitFiles ==
    /\ \/ /\ store \in Docs
          /\ disk \in BadBookmarkFiles \cup { OtherJson }
          /\ settings = DefaultSettings
          /\ settings_disk = None
       \/ /\ store = default_store
          /\ disk = ToJson(store)
          /\ settings \in SettingsPool
          /\ settings_disk \in SettingsFiles
    /\ save_result = "none"
    /\ remote_sha = None
    /\ sync_in_progress = FALSE
    /\ queue = << >>
    /\ workers = << >>
    /\ remote = [r \in Repos |-> AbsentFile]
    /\ syncStatus = IdleStatus
    /\ outcome = NoRequest
    /\ retry = RetryIdle
    /\ userEdits = 0 /\ syncCmds = 0 /\ remoteEdits = 0

FilesFrame ==
    UNCHANGED << remote_sha, sync_in_progress, queue, workers, remote, syncStatus,
                 outcome, retry, userEdits, syncCmds, remoteEdits >>

\* let mut store = BookmarkStore::load();
BookmarkStore_load ==
    /\ store' = BookmarkStore_load_from(disk)
    /\ UNCHANGED << disk, save_result, settings, settings_disk >>
    /\ FilesFrame
\* store.save(), its result ignored or only reported.
BookmarkStore_save ==
    /\ store' = store
    /\ \E r \in FsWriteResults : save(r)
    /\ UNCHANGED << settings, settings_disk >>
    /\ FilesFrame
\* let mut settings = Settings::load();
Settings_load ==
    /\ settings' = Settings_load_from(settings_disk)
    /\ UNCHANGED << store, disk, save_result, settings_disk >>
    /\ FilesFrame
\* settings.save(), its result ignored.
Settings_save ==
    /\ \E r \in FsWriteResults :
         settings_disk' = settings_save_to(settings, r)
    /\ UNCHANGED << store, disk, save_result, settings >>
    /\ FilesFrame

NextFiles ==
    \/ BookmarkStore_load
    \/ BookmarkStore_save
    \/ Settings_load
    \/ Settings_save

SpecFiles == InitFiles /\ [][NextFiles]_vars



\* ==================================================================== claims
\* Reading a step of the event loop off a transition.
Last(q) == q[Len(q)]
\* The event at the head of the queue is taken by its handler in this step.
Handled(type) == HeadIs(type) /\ queue' # queue /\ Len(queue') <= Len(queue)
\* An event of this type is sent to the queue in this step.
Posted(type) == Len(queue') = Len(queue) + 1 /\ Last(queue').type = type
SyncRequests == { "PushToGitHub", "PullFromGitHub", "AutoSync" }
Completions == { "SyncStatus", "PushComplete", "PullComplete" }
\* Operations in flight: running workers and completions not yet handled.
InFlight ==
    Len(workers) + Cardinality({ i \in 1..Len(queue) : queue[i].type \in Completions })
CredentialEmpty == settings.github_token = ""
LocationEmpty == settings.github_repo = ""
ConflictText == format_ureq_error("StatusCode(409)")
NetFailureTexts == { format_ureq_error(e) : e \in NetFailures }

\* C1: at most one sync operation is in flight in every reachable state, and a
\* push, pull or autosync request handled while sync_in_progress is true starts
\* no worker and leaves nothing in the queue for later.
C1_SingleFlight ==
    /\ [](InFlight <= 1)
    /\ [][ (sync_in_progress /\ \E t \in SyncRequests : Handled(t))
           => /\ workers' = workers
              /\ queue' = Tail(queue)
              /\ sync_in_progress' ]_vars
C1_Witness ==
    /\ outcome = Outcome("pull", "AlreadyInProgress")
    /\ sync_in_progress
    /\ InFlight = 1

\* C2 as stated: remote_sha changes only when a PushComplete (to its token) or
\* a PullComplete (to its token) is handled.
C2_Original ==
    [][ remote_sha' # remote_sha
        => \/ Handled("PushComplete") /\ remote_sha' = Head(queue).new_sha
           \/ Handled("PullComplete") /\ remote_sha' = Some(Head(queue).sha) ]_vars
\* C2 amended: remote_sha changes only when a PushComplete or PullComplete is
\* handled (to the token it carries), or when a SaveSettings whose repository
\* differs from the stored one is handled (to None).
C2_TokenChanges ==
    [][ remote_sha' # remote_sha
        => \/ Handled("PushComplete") /\ remote_sha' = Head(queue).new_sha
           \/ Handled("PullComplete") /\ remote_sha' = Some(Head(queue).sha)
           \/ /\ Handled("SaveSettings")
              /\ Head(queue).github_repo # settings.github_repo
              /\ remote_sha' = None ]_vars
C2_Witness ==
    /\ syncStatus.type = "success"
    /\ remote_sha = None
    /\ settings.github_repo = "o/r2"
    /\ ~sync_in_progress

\* C3: handling the failure completion of a push, pull or autosync clears
\* sync_in_progress and leaves the store, bookmarks.json and remote_sha as
\* they were.
C3_FailureKeepsState ==
    [][ Handled("SyncStatus")
        => /\ ~sync_in_progress'
           /\ store' = store
           /\ disk' = disk
           /\ remote_sha' = remote_sha ]_vars
C3_Witness ==
    /\ syncStatus.type = "error"
    /\ Len(syncStatus.msg) = 2
    /\ syncStatus.msg[1] = "Pull failed: "
    /\ IsSome(remote_sha)
    /\ ~sync_in_progress

\* C4 as stated: a push request handled while a sync is in flight is answered
\* AlreadyInProgress, starts no worker and changes neither sync_in_progress,
\* remote_sha nor the store.
C4_Original ==
    [][ (sync_in_progress /\ Handled("PushToGitHub"))
        => /\ outcome' = Outcome("push", "AlreadyInProgress")
           /\ workers' = workers
           /\ UNCHANGED << sync_in_progress, remote_sha, store, disk >> ]_vars
\* C4 amended: a push request handled while a sync is in flight starts no
\* worker and changes neither sync_in_progress, remote_sha nor the store; it
\* is answered AlreadyInProgress (silently) when token and repository are set,
\* and NoLocation when the repository has been cleared in the meantime.
C4_PushWhileInFlight ==
    [][ (sync_in_progress /\ Handled("PushToGitHub"))
        => /\ workers' = workers
           /\ UNCHANGED << sync_in_progress, remote_sha, store, disk >>
           /\ ~CredentialEmpty
           /\ IF LocationEmpty
              THEN outcome' = Outcome("push", "NoLocation")
              ELSE /\ outcome' = Outcome("push", "AlreadyInProgress")
                   /\ syncStatus' = syncStatus ]_vars
C4_Witness ==
    /\ outcome = Outcome("push", "AlreadyInProgress")
    /\ Len(workers) = 1
    /\ sync_in_progress

\* C5: a push or pull request handled while the token is empty is answered
\* NoCredential, and while the repository is empty (the token check coming
\* first) NoLocation; either way no worker is started, sync_in_progress,
\* remote_sha and the store are unchanged, and an error text is displayed.
C5_MissingSettings ==
    [][ \A req \in { "push", "pull" } :
          (Handled(IF req = "push" THEN "PushToGitHub" ELSE "PullFromGitHub")
             /\ (CredentialEmpty \/ LocationEmpty))
          => /\ outcome' = Outcome(req, IF CredentialEmpty THEN "NoCredential" ELSE "NoLocation")
             /\ workers' = workers
             /\ UNCHANGED << sync_in_progress, remote_sha, store, disk >>
             /\ syncStatus'.type = "error"
             /\ syncStatus'.active
             /\ syncStatus'.msg = IF CredentialEmpty
                                  THEN << "No token configured - open Settings" >>
                                  ELSE << "No repo configured - open Settings" >> ]_vars
C5_Witness ==
    /\ outcome = Outcome("pull", "NoLocation")
    /\ settings.github_token # ""
    /\ syncStatus.msg = << "No repo configured - open Settings" >>
    /\ workers = << >>
    /\ ~sync_in_progress

\* The Document a persisted bookmarks.json holds, as load_from reads it.
Persisted(json) == IF StoreParses(json) THEN FromJson(json) ELSE default_store

\* C6: a successful push posts the token the remote returned for its write,
\* and handling that completion makes remote_sha exactly this token, clears
\* sync_in_progress and leaves the store as it was.
C6_PushSuccess ==
    [][ /\ Posted("PushComplete")
           => \E i \in 1..Len(workers) :
                LET w == workers[i] IN
                /\ w.kind \in { "push", "auto" }
                /\ remote'[w.repo].ver = remote[w.repo].ver + 1
                /\ remote'[w.repo].content = Base64Encode(w.bookmarks_json)
                /\ Last(queue').new_sha = Some([repo |-> w.repo, n |-> remote'[w.repo].ver])
        /\ Handled("PushComplete")
           => /\ IsSome(Head(queue).new_sha)
              /\ remote_sha' = Head(queue).new_sha
              /\ ~sync_in_progress'
              /\ store' = store
              /\ disk' = disk ]_vars
C6_Witness ==
    /\ syncStatus.msg = << "Pushed successfully" >>
    /\ settings.github_repo \in Repos
    /\ remote_sha = Some(Tok(settings.github_repo))
    /\ ~sync_in_progress
    /\ queue = << >>

\* A pull worker posts the Document decoded from the remote file it read, with
\* that file's version.
PullPostsWhatItFetched ==
    Posted("PullComplete")
    => \E i \in 1..Len(workers) :
         LET w == workers[i] IN
         /\ w.kind = "pull"
         /\ remote[w.repo].exists
         /\ Last(queue').new_store = FromJson(Base64Decode(remote[w.repo].content))
         /\ Last(queue').sha = Tok(w.repo)

\* C7 as stated: after a successful pull of Document D2 with token T the store
\* and the persisted Document both equal D2, remote_sha is T and
\* sync_in_progress is false, whatever the store was before.
C7_Original ==
    [][ /\ PullPostsWhatItFetched
        /\ Handled("PullComplete")
           => /\ store' = Head(queue).new_store
              /\ Persisted(disk') = Head(queue).new_store
              /\ remote_sha' = Some(Head(queue).sha)
              /\ ~sync_in_progress' ]_vars
\* C7 amended: after a successful pull of Document D2 with token T the store
\* equals D2, remote_sha is T and sync_in_progress is false, whatever the store
\* was before; the persisted Document equals D2 when the handler's save
\* succeeds, and a failed save is ignored and leaves bookmarks.json as it was
\* or truncated.
C7_PullReplaces ==
    [][ /\ PullPostsWhatItFetched
        /\ Handled("PullComplete")
           => /\ store' = Head(queue).new_store
              /\ \/ /\ save_result' = "Ok"
                    /\ disk' = ToJson(Head(queue).new_store)
                    /\ Persisted(disk') = Head(queue).new_store
                 \/ /\ save_result' # "Ok"
                    /\ disk' \in { disk, NotJson }
              /\ remote_sha' = Some(Head(queue).sha)
              /\ ~sync_in_progress' ]_vars
C7_Witness ==
    /\ syncStatus.msg = << "Pulled successfully" >>
    /\ userEdits = 1
    /\ store = FromJson(OtherJson)
    /\ Persisted(disk) = store
    /\ IsSome(remote_sha)
    /\ ~sync_in_progress

\* C8: when a push worker was given Some(t) and the remote file's version is
\* no longer t, its request changes nothing at the remote and ends in a
\* failure completion: the conflict text, unless the network failed first.
C8_StaleTokenRejected ==
    [][ \A i \in 1..Len(workers) :
          LET w == workers[i] IN
          ( /\ w.kind \in { "push", "auto" }
            /\ IsSome(w.sha)
            /\ remote[w.repo].exists
            /\ w.sha # Some(Tok(w.repo))
            /\ workers' # workers )
          => /\ remote' = remote
             /\ Posted("SyncStatus")
             /\ Last(queue').msg[2] \in { ConflictText } \cup NetFailureTexts ]_vars
C8_Witness ==
    /\ syncStatus.msg = << "Push failed: ", ConflictText >>
    /\ IsSome(remote_sha)
    /\ remoteEdits = 1
    /\ settings.github_repo \in Repos
    /\ remote[settings.github_repo].content \in OtherBlobs

\* C9: handling a conflict failure leaves remote_sha unchanged; and when a
\* pull and then a push follow it with no remote edit and no other sync in
\* between, the push sends the token that pull observed and the remote takes
\* the write (the push ends in success unless the network fails).
C9_ConflictThenPullPush ==
    /\ [](retry.stage = "done"
          => /\ IsSome(retry.tok)
             /\ retry.sent = retry.tok
             /\ retry.res \in { "ok", "Malformed" } \cup NetFailures)
    /\ [][ (Handled("SyncStatus") /\ IsConflictMsg(Head(queue).msg))
           => remote_sha' = remote_sha ]_vars
C9_Witness ==
    /\ retry.stage = "done"
    /\ retry.res = "ok"
    /\ retry.sent = retry.tok

\* C10: a push worker given no sha first probes, then sends one PUT: with the
\* probed sha when the file exists, with none when the probe finds no file;
\* a failed probe ends the worker with nothing written.
C10_ProbeThenOneWrite ==
    /\ [](\A i \in 1..Len(workers) :
            LET w == workers[i] IN
            (w.kind # "pull" /\ w.sha = None)
            => \/ w.pc = "probe" /\ w.probe = "none"
               \/ w.pc = "put" /\ w.probe = "found" /\ IsSome(w.cur)
               \/ w.pc = "put" /\ w.probe = "absent" /\ w.cur = None)
    /\ [][ \A i \in 1..Len(workers) :
             LET w == workers[i] IN
             (w.kind # "pull" /\ w.sha = None /\ workers' # workers)
             => IF w.pc = "probe"
                THEN /\ remote' = remote
                     /\ \/ /\ Len(workers') = Len(workers)
                           /\ workers'[i].pc = "put"
                           /\ workers'[i].cur = IF remote[w.repo].exists
                                                THEN Some(Tok(w.repo)) ELSE None
                        \/ /\ Len(workers') < Len(workers)
                           /\ Posted("SyncStatus")
                ELSE /\ Len(workers') < Len(workers)
                     /\ \/ remote' = remote
                        \/ /\ PutAccepted(w.repo, w.cur)
                           /\ remote' = Written(w.repo, Base64Encode(w.bookmarks_json)) ]_vars
C10_Witness ==
    /\ syncStatus.msg = << "Pushed successfully" >>
    /\ syncCmds = 1
    /\ userEdits = 0
    /\ remote_sha = Some([repo |-> "o/r1", n |-> 2])

\* A handler of a document command, and what it does to the queue when it
\* sends AutoSync: the command is taken and AutoSync is put at the back.
MutationEvents ==
    { "ToggleFolder", "AddFolder", "AddBookmark", "DeleteBookmark", "DeleteFolder" }
AutoSyncSent == queue' = Append(Tail(queue), Event("AutoSync"))
\* A worker thread of one of these kinds is spawned in this step.
Started(kinds) ==
    /\ Len(workers') = Len(workers) + 1
    /\ Last(workers').kind \in kinds

\* C11 as stated: every handled ToggleFolder, AddFolder, AddBookmark,
\* DeleteBookmark or DeleteFolder that changes the store sends an AutoSync
\* event.
C11_Original ==
    [][ \A t \in MutationEvents :
          (Handled(t) /\ store' # store) => AutoSyncSent ]_vars

\* C12: an AutoSync handled while the token is empty, the repository is empty
\* or a sync is in flight starts no worker, shows nothing and leaves
\* sync_in_progress, remote_sha and the store as they were; otherwise it
\* spawns a worker with the arguments a push would get: the token, the
\* repository, remote_sha and the serialized store.
C12_AutoSyncSilent ==
    [][ Handled("AutoSync")
        => IF CredentialEmpty \/ LocationEmpty \/ sync_in_progress
           THEN /\ workers' = workers
                /\ syncStatus' = syncStatus
                /\ queue' = Tail(queue)
                /\ UNCHANGED << sync_in_progress, remote_sha, store, disk >>
           ELSE /\ Started({ "auto" })
                /\ sync_in_progress'
                /\ Last(workers').token = settings.github_token
                /\ Last(workers').repo = settings.github_repo
                /\ Last(workers').sha = remote_sha
                /\ Last(workers').bookmarks_json = ToJson(store)
                /\ Last(workers').pc = IF remote_sha = None THEN "probe" ELSE "put"
                /\ UNCHANGED << remote_sha, store, disk >> ]_vars
C12_Witness ==
    /\ outcome = Outcome("auto", "Skipped")
    /\ CredentialEmpty
    /\ store # default_store
    /\ store \notin InitStores
    /\ workers = << >>
    /\ syncStatus = IdleStatus
    /\ ~sync_in_progress

\* C13 as stated: a push or autosync worker is only started with a Document
\* that bookmarks.json already holds.
C13_Original ==
    [][ Started({ "push", "auto" })
        => Persisted(disk) = FromJson(Last(workers').bookmarks_json) ]_vars
\* C13 amended: each mutation handler attempts the save in the same step,
\* before AutoSync is sent, and a worker carries the in-memory Document; the
\* save's result is ignored, so the file holds the Document a worker carries
\* whenever the saves succeeded, and it stops holding the store only in a step
\* whose save failed, which leaves the file as it was or truncated.
C13_SaveBeforeSync ==
    [][ /\ \A t \in MutationEvents :
             (Handled(t) /\ store' # store)
                => disk' = fs_write(disk, ToJson(store'), save_result')
        /\ Started({ "push", "auto" })
             => Last(workers').bookmarks_json = ToJson(store)
        /\ (disk = ToJson(store) /\ disk' # ToJson(store'))
             => /\ save_result' # "Ok"
                /\ disk' \in { disk, NotJson }
                /\ \E t \in MutationEvents \cup { "PullComplete" } : Handled(t) ]_vars
C13_Witness ==
    /\ Len(workers) = 1
    /\ workers[1].kind = "auto"
    /\ workers[1].bookmarks_json = disk
    /\ disk = ToJson(store)
    /\ store \notin InitStores

\* The command at the head of the queue names a folder or a bookmark that
\* the store does not have.
OutOfRange ==
    /\ queue # << >>
    /\ LET e == Head(queue)
           n == Len(store.folders)
       IN CASE e.type = "ToggleFolder" -> e.index >= n
            [] e.type = "DeleteFolder" -> e.index >= n
            [] e.type = "AddBookmark" -> e.folder_index >= n
            [] e.type = "DeleteBookmark" ->
                 \/ e.folder_index >= n
                 \/ e.bookmark_index >= Len(store.folders[e.folder_index + 1].bookmarks)
            [] OTHER -> FALSE
\* All folders but the one at 0-based index fi are the same before and after.
OtherFoldersKept(fi) ==
    /\ Len(store'.folders) = Len(store.folders)
    /\ \A k \in 1..Len(store.folders) : k # fi + 1 => store'.folders[k] = store.folders[k]

\* C14: a ToggleFolder, AddBookmark, DeleteBookmark or DeleteFolder whose
\* folder or bookmark index is out of range is handled (the handler can always
\* take it) and leaves the store and bookmarks.json as they were and sends no
\* AutoSync.
C14_OutOfRangeIgnored ==
    /\ [](OutOfRange => ENABLED (ToggleFolder \/ AddBookmark \/ DeleteBookmark \/ DeleteFolder))
    /\ [][ (OutOfRange /\ Handled(Head(queue).type))
           => /\ store' = store
              /\ disk' = disk
              /\ queue' = Tail(queue) ]_vars
C14_Witness ==
    /\ userEdits = 1
    /\ queue = << >>
    /\ outcome = NoRequest
    /\ store \in Docs
    /\ Len(store.folders) = MaxFolders
    /\ disk = ToJson(store)

\* C15: AddFolder can always be handled, and leaves the folders it found,
\* unchanged and in order, followed by one folder of the given name that is
\* expanded and has no bookmarks.
C15_AddFolderAppends ==
    /\ [](HeadIs("AddFolder") => ENABLED AddFolder)
    /\ [][ Handled("AddFolder")
           => LET n == Len(store.folders) IN
              /\ Len(store'.folders) = n + 1
              /\ \A k \in 1..n : store'.folders[k] = store.folders[k]
              /\ store'.folders[n + 1].name = Head(queue).name
              /\ store'.folders[n + 1].expanded = TRUE
              /\ store'.folders[n + 1].bookmarks = << >> ]_vars
C15_Witness ==
    /\ Len(store.folders) = MaxFolders + 1
    /\ Last(store.folders) = [name |-> "Work", expanded |-> TRUE, bookmarks |-> << >>]
    /\ store.folders[1].bookmarks # << >>

\* C16: AddBookmark with a folder index in range puts the bookmark after the
\* bookmarks the folder had, and changes nothing else: the folder's name and
\* expanded flag, its earlier bookmarks and all other folders stay.
C16_AddBookmarkAppends ==
    [][ (Handled("AddBookmark") /\ ~OutOfRange)
        => LET e == Head(queue)
               old == store.folders[e.folder_index + 1]
               new == store'.folders[e.folder_index + 1]
               n == Len(old.bookmarks)
           IN /\ OtherFoldersKept(e.folder_index)
              /\ new.name = old.name
              /\ new.expanded = old.expanded
              /\ Len(new.bookmarks) = n + 1
              /\ \A k \in 1..n : new.bookmarks[k] = old.bookmarks[k]
              /\ new.bookmarks[n + 1] = [name |-> e.name, url |-> e.url] ]_vars
C16_Witness ==
    /\ Len(store.folders) = MaxFolders
    /\ Len(store.folders[2].bookmarks) = MaxBookmarks + 1
    /\ Last(store.folders[2].bookmarks) \in NewBookmarks
    /\ store.folders[1] \in FolderPool
    /\ store.folders[3] \in FolderPool

\* C17: DeleteBookmark with both indices in range removes the bookmark at
\* that position: the folder has one bookmark fewer, those before the
\* position stay, those after it move up by one in the same order, and every
\* other folder is unchanged.
C17_DeleteBookmarkRemoves ==
    [][ (Handled("DeleteBookmark") /\ ~OutOfRange)
        => LET e == Head(queue)
               old == store.folders[e.folder_index + 1]
               new == store'.folders[e.folder_index + 1]
               n == Len(old.bookmarks)
           IN /\ OtherFoldersKept(e.folder_index)
              /\ new.name = old.name
              /\ new.expanded = old.expanded
              /\ Len(new.bookmarks) = n - 1
              /\ \A k \in 1..(n - 1) :
                   new.bookmarks[k] = IF k <= e.bookmark_index THEN old.bookmarks[k]
                                                                ELSE old.bookmarks[k + 1] ]_vars
C17_Witness ==
    /\ Len(store.folders) >= 2
    /\ store.folders[2].bookmarks = << BookmarkPool[1], BookmarkPool[3] >>
    /\ store.folders[1] \in FolderPool

\* C18: DeleteFolder with an index in range removes that folder with its
\* bookmarks: there is one folder fewer, the folders before it stay and the
\* folders after it move up by one, each with its contents.
C18_DeleteFolderRemoves ==
    [][ (Handled("DeleteFolder") /\ ~OutOfRange)
        => LET i == Head(queue).index
               n == Len(store.folders)
           IN /\ Len(store'.folders) = n - 1
              /\ \A k \in 1..(n - 1) :
                   store'.folders[k] = IF k <= i THEN store.folders[k]
                                                 ELSE store.folders[k + 1] ]_vars
C18_Witness ==
    /\ userEdits = 1
    /\ outcome = Outcome("auto", "Skipped")
    /\ store \in Docs
    /\ Len(store.folders) = MaxFolders - 1
    /\ store.folders[1] # store.folders[2]

\* The number of bookmarks in all folders of a store.
RECURSIVE CountBookmarks(_)
CountBookmarks(folders) ==
    IF folders = << >> THEN 0
    ELSE Len(Head(folders).bookmarks) + CountBookmarks(Tail(folders))

\* C19: for every store, with no folders or with folders that have no
\* bookmarks too, loading what save_to writes gives back an equal store; so
\* once bookmarks.json holds the saved store, a load changes nothing.
C19_SaveLoadRoundTrip ==
    /\ [](BookmarkStore_load_from(ToJson(store)) = store)
    /\ [][ disk = ToJson(store) => store' = store ]_vars
C19_Witness ==
    /\ disk = ToJson(store)
    /\ BookmarkStore_load_from(disk) = store
    /\ store \in Docs
    /\ Len(store.folders) = MaxFolders
    /\ \E k \in 1..MaxFolders : store.folders[k].bookmarks = << >>
    /\ \E k \in 1..MaxFolders : ~store.folders[k].expanded

\* C20: loading can always be done; from a bookmarks file that is missing,
\* unreadable or does not parse it gives default_store (2 folders, 3
\* bookmarks), and from such a settings file the default Settings (sidebar
\* not collapsed, empty token, empty repository).
C20_LoadDefaults ==
    /\ ENABLED BookmarkStore_load
    /\ ENABLED Settings_load
    /\ disk \in BadBookmarkFiles => BookmarkStore_load_from(disk) = default_store
    /\ settings_disk \in BadSettingsFiles => Settings_load_from(settings_disk) = DefaultSettings
    /\ Len(default_store.folders) = 2
    /\ CountBookmarks(default_store.folders) = 3
    /\ ~DefaultSettings.sidebar_collapsed
    /\ DefaultSettings.github_token = ""
    /\ DefaultSettings.github_repo = ""
C20_Witness ==
    /\ disk \in { NoFile, UnreadableFile, NotJson }
    /\ store = default_store
    /\ settings_disk = None
    /\ settings = DefaultSettings

\* What a settings file says of a field, or the field's default.
FileBool(j, k) == IF HasKey(j, k) THEN GetKey(j, k).v[1] ELSE FALSE
FileStr(j, k) == IF HasKey(j, k) THEN GetKey(j, k).v[1] ELSE ""
LegacyFile(file) ==
    /\ IsSome(file)
    /\ HasKey(Unwrap(file), "github_gist_id")
    /\ file \notin BadSettingsFiles

\* C21: a settings file that has the obsolete github_gist_id loads with
\* sidebar_collapsed, github_token and github_repo as the file gives them
\* (the default where it gives none), and whatever a save that completes
\* writes has no github_gist_id.
C21_LegacyMigration ==
    /\ [](LegacyFile(settings_disk)
          => LET j == Unwrap(settings_disk)
                 s == Settings_load_from(settings_disk)
             IN /\ s.sidebar_collapsed = FileBool(j, "sidebar_collapsed")
                /\ s.github_token = FileStr(j, "github_token")
                /\ s.github_repo = FileStr(j, "github_repo"))
    /\ [][ settings_disk' \notin { settings_disk, Some(NotJson) }
           => /\ IsSome(settings_disk')
              /\ ~HasKey(Unwrap(settings_disk'), "github_gist_id")
              /\ FileStr(Unwrap(settings_disk'), "github_token") = settings.github_token
              /\ FileStr(Unwrap(settings_disk'), "github_repo") = settings.github_repo ]_vars
C21_Witness ==
    /\ settings.github_gist_id = "abc123"
    /\ settings.github_token = "tok"
    /\ settings_disk = Some(SettingsToJson(settings))
    /\ ~HasKey(Unwrap(settings_disk), "github_gist_id")
    /\ HasKey(Unwrap(settings_disk), "github_token")

\* C22: loading what save_to wrote for any Settings gives Settings with the
\* same sidebar_collapsed, github_token and github_repo; so once the file
\* holds the saved Settings, a load changes none of the three.
SameSettings(a, b) ==
    /\ a.sidebar_collapsed = b.sidebar_collapsed
    /\ a.github_token = b.github_token
    /\ a.github_repo = b.github_repo
C22_SettingsRoundTrip ==
    /\ [](SameSettings(Settings_load_from(Some(SettingsToJson(settings))), settings))
    /\ [][ settings_disk = Some(SettingsToJson(settings))
           => SameSettings(settings', settings) ]_vars
C22_Witness ==
    /\ settings.sidebar_collapsed
    /\ settings.github_token = "test-token"
    /\ settings.github_repo = "user/bookmarks"
    /\ settings_disk = Some(SettingsToJson(settings))
    /\ SameSettings(Settings_load_from(settings_disk), settings)

\* The text each kind of sync operation shows when it starts; an autosync
\* is a push.
StartText(kind) == IF kind = "pull" THEN << "Pulling..." >> ELSE << "Pushing..." >>
InProgress(st) == st.active /\ st.type = "progress"

\* C23: whenever a push, a pull or an autosync has just been started, the
\* status element shows that operation's text as a progress status.
C23_Original ==
    [][ \A kind \in { "push", "pull", "auto" } :
          Started({kind}) => InProgress(syncStatus') /\ syncStatus'.msg = StartText(kind) ]_vars

C25_Original ==
    [][ /\ Started({ "push", "pull", "auto" })
        /\ syncStatus.active
        /\ syncStatus.type \in { "success", "error" }
        => InProgress(syncStatus') /\ syncStatus'.syncTimer = 0 ]_vars

\* C26: whenever a sync operation is in flight, sync_in_progress is
\* eventually false again.
C26_Original == sync_in_progress ~> ~sync_in_progress

\* C27: when the save of a document handler fails (bookmarks.json does not
\* hold the new store afterwards), the store is still the mutated one,
\* bookmarks.json is as it was before, and the loop goes on to the next event.
C27_Original ==
    /\ [][ (\E type \in MutationEvents : Handled(type))
           /\ disk' # ToJson(store')
           => /\ disk' = disk
              /\ Handled("AddFolder") => store' = add_folder(store, Head(queue).name) ]_vars
    /\ [](queue # << >> => ENABLED NextDoc)

\* C28: bookmarks.json holds the store whenever the last store.save() ended
\* Ok (the one at startup included): after startup and after every event
\* handled since, if no save failed.
C28_DiskIsStore ==
    save_result = "Ok" => disk = ToJson(store) /\ Persisted(disk) = store
C28_Witness ==
    /\ save_result = "Ok"
    /\ disk = ToJson(store)
    /\ Len(store.folders) = 2
    /\ store.folders[2].name = "Work"
    /\ Len(queue) = 0

\* C29: format_ureq_error gives every error of a request a text of its own
\* class, and for a 409 the text that says to pull first, then push again;
\* a thread that fails posts that text behind the prefix of its operation,
\* the conflict text only for a write the remote rejected; the SyncStatus
\* handler shows the text as an error status and clears sync_in_progress;
\* and whatever event is queued, the loop can handle it.
C29_ErrorsSurfaced ==
    /\ [](/\ format_ureq_error("StatusCode(409)") = "SHA conflict - pull first, then push again"
          /\ \A e \in UreqErrors : format_ureq_error(e) # ""
          /\ \A e1, e2 \in UreqErrors \ { "StatusCode(500)", "Io" } :
                format_ureq_error(e1) = format_ureq_error(e2) => e1 = e2
          /\ \A e \in UreqErrors \ { "StatusCode(500)", "Io" } :
                format_ureq_error(e) \notin { format_ureq_error("StatusCode(500)"),
                                             format_ureq_error("Io") }
          /\ queue # << >> => ENABLED (PushToGitHub \/ PullFromGitHub \/ AutoSync
                                       \/ SyncStatus \/ PushComplete \/ PullComplete))
    /\ [][ /\ Posted("SyncStatus")
              => LET msg == Last(queue').msg
                     w == workers[1]
                 IN /\ Len(workers) = 1 /\ workers' = << >>
                    /\ msg[1] = FailPrefix(w.kind)
                    /\ msg[2] # ""
                    /\ msg[2] = ConflictText
                         => /\ w.kind \in { "push", "auto" }
                            /\ w.pc = "put"
                            /\ ~PutAccepted(w.repo, w.cur)
           /\ Handled("SyncStatus")
              => /\ syncStatus'.msg = Head(queue).msg
                 /\ syncStatus'.active
                 /\ syncStatus'.type = "error"
                 /\ ~sync_in_progress' ]_vars
C29_Witness ==
    /\ syncStatus.msg = << "Push failed: ", "SHA conflict - pull first, then push again" >>
    /\ syncStatus.type = "error"
    /\ syncStatus.active
    /\ remote_sha # None
    /\ ~sync_in_progress

\* C30: a step of a worker thread leaves the store, bookmarks.json, the
\* settings and their file, remote_sha, sync_in_progress and the status
\* element as they are; what it sends to GitHub is made of the values it was
\* spawned with (its repository, its sha, its text of the store), whatever
\* the store and the settings are by then; and it either goes on or ends by
\* sending exactly one completion event.
C30_WorkersUseCopies ==
    [][ get_file_sha \/ do_push \/ do_pull
        => /\ UNCHANGED << store, disk, save_result, settings, settings_disk, remote_sha,
                           sync_in_progress, syncStatus >>
           /\ \E i \in 1..Len(workers) :
                LET w == workers[i] IN
                /\ \/ /\ workers' = RemoveAt(workers, i - 1)
                      /\ \E type \in Completions : Posted(type)
                      /\ SubSeq(queue', 1, Len(queue)) = queue
                   \/ /\ workers' = [workers EXCEPT ![i] = workers'[i]]
                      /\ workers'[i].pc # w.pc
                      /\ queue' = queue
                /\ remote' # remote
                     => /\ w.kind \in { "push", "auto" }
                        /\ remote' = Written(w.repo, Base64Encode(w.bookmarks_json))
                        /\ PutAccepted(w.repo, w.cur)
                        /\ w.sha # None => w.cur = w.sha ]_vars
C30_Witness ==
    /\ workers = << >>
    /\ Len(queue) = 1
    /\ Head(queue).type = "PushComplete"
    /\ Len(store.folders) = 2
    /\ \E r \in Repos :
         /\ remote[r].exists
         /\ remote[r].content \in { Base64Encode(ToJson(st)) : st \in InitStores }
         /\ remote[r].content # Base64Encode(ToJson(store))

\* C31: sync_in_progress is true exactly when one operation is outstanding
\* (its thread has not ended, or its completion event is still queued), and
\* never more than one is; a thread ends exactly in the step that sends one
\* completion event, and a completion event is sent only by a thread that
\* ends; the flag falls exactly when a completion event is handled.
C31_FlagIsOutstanding ==
    /\ [](sync_in_progress <=> InFlight = 1)
    /\ [](InFlight <= 1)
    /\ [][ /\ Len(workers') < Len(workers)
              <=> \E type \in Completions : Posted(type)
           /\ (\E type \in Completions : Posted(type))
              => /\ Len(workers') = Len(workers) - 1
                 /\ SubSeq(queue', 1, Len(queue)) = queue
           /\ (sync_in_progress /\ ~sync_in_progress')
              <=> \E type \in Completions : Handled(type) ]_vars
C31_Witness ==
    /\ sync_in_progress
    /\ workers = << >>
    /\ Len(queue) = 1
    /\ Head(queue).type = "SyncStatus"
    /\ outcome = Outcome("auto", "Started")

\* C32: a held remote_sha is a version of the file in the repository the
\* settings name, and a thread is never given a sha of another repository
\* than the one it writes to.
C32_Original ==
    /\ remote_sha # None => Unwrap(remote_sha).repo = settings.github_repo
    /\ \A i \in 1..Len(workers) :
         workers[i].sha # None => Unwrap(workers[i].sha).repo = workers[i].repo

\* C33 as stated: a thread replaces an existing remote file only when it was
\* spawned with the sha of that version, a sha the client got from a write or
\* a pull of its own.
C33_Original ==
    [][ remote' # remote /\ remoteEdits' = remoteEdits
        => \E i \in 1..Len(workers) :
             LET w == workers[i] IN
             /\ remote' = Written(w.repo, Base64Encode(w.bookmarks_json))
             /\ remote[w.repo].exists => w.sha = Some(Tok(w.repo)) ]_vars

\* C34: with token and repository configured and no other writer, the
\* program comes to rest (nothing queued, no thread running) with the remote
\* file holding the store, unless a request failed and its error is shown
\* or no command has changed the store.
C34_Original ==
    <>[](/\ queue = << >>
         /\ workers = << >>
         /\ \/ syncStatus.type = "error"
            \/ store \in InitStores
            \/ /\ remote[settings.github_repo].exists
               /\ remote[settings.github_repo].content = Base64Encode(ToJson(store)))

\* C35: a thread spawned by PushToGitHub or AutoSync holds the serialized store,
\* the token, the repository and the sha of the moment the event is handled;
\* nothing handled while the thread runs changes what it holds; and what it
\* writes is its own string, at its own repository, under its own sha (the
\* probed one when it was spawned without).
C35_PushSnapshot ==
    [][/\ Started({ "push", "auto" }) =>
            LET w == Last(workers') IN
            /\ w.bookmarks_json = ToJson(store)
            /\ w.token = settings.github_token
            /\ w.repo = settings.github_repo
            /\ w.sha = remote_sha
       /\ \A i \in 1..Len(workers) :
            Len(workers') = Len(workers) =>
               /\ workers'[i].bookmarks_json = workers[i].bookmarks_json
               /\ workers'[i].token = workers[i].token
               /\ workers'[i].repo = workers[i].repo
               /\ workers'[i].sha = workers[i].sha
       /\ (remote' # remote /\ remoteEdits' = remoteEdits) =>
            \E i \in 1..Len(workers) :
               LET w == workers[i] IN
               /\ w.kind \in { "push", "auto" }
               /\ remote' = [remote EXCEPT ![w.repo] =
                                [exists |-> TRUE,
                                 content |-> Base64Encode(w.bookmarks_json),
                                 ver |-> remote[w.repo].ver + 1]]
               /\ w.sha # None => w.cur = w.sha]_vars

\* A command changed the store while a push was running, and the push then
\* wrote the store of before the command.
C35_Witness ==
    /\ queue # << >>
    /\ Head(queue).type = "PushComplete"
    /\ remoteEdits = 0
    /\ store \notin InitStores
    /\ \E s0 \in InitStores, r \in Repos :
          /\ remote[r].exists
          /\ remote[r].content = Base64Encode(ToJson(s0))

\* C36: while the repository stays the configured one and nobody else writes
\* the remote file, no push thread ends with the text of a 409.
C36_Original ==
    [][remoteEdits = 0 =>
          ~(/\ Posted("SyncStatus")
            /\ Last(queue').msg[2] = format_ureq_error("StatusCode(409)"))]_vars

\* C37: a handled SaveSettings sets remote_sha to None exactly when the
\* submitted repository differs from the stored one and leaves it as it is
\* otherwise, whatever token is submitted; it stores the submitted
\* repository; it changes neither the store, the bookmarks file nor
\* sync_in_progress.
C37_SaveSettingsEffect ==
    [][Handled("SaveSettings") =>
          LET e == Head(queue) IN
          /\ remote_sha' = IF e.github_repo # settings.github_repo THEN None
                                                                   ELSE remote_sha
          /\ settings'.github_repo = e.github_repo
          /\ store' = store
          /\ disk' = disk
          /\ sync_in_progress' = sync_in_progress]_vars

\* A thread spawned under the token "tok" is still running, the stored token
\* is another one, the repository is the thread's, and the sha held before
\* is still held: SaveSettings changed the token alone.
C37_Witness ==
    /\ remote_sha # None
    /\ \E i \in 1..Len(workers) :
          /\ workers[i].token = "tok"
          /\ settings.github_token = "tok2"
          /\ workers[i].repo = settings.github_repo

\* C38: a handled SaveSettings whose token is empty leaves the stored token as
\* it is, and no step turns a non-empty stored token into the empty one.
C38_TokenNeverEmptied ==
    [][/\ (Handled("SaveSettings") /\ Head(queue).github_token = "") =>
            settings'.github_token = settings.github_token
       /\ settings.github_token # "" => settings'.github_token # ""]_vars

\* A thread spawned for a repository under the token "tok" is still running;
\* since then SaveSettings has emptied the stored repository, and the stored
\* token is still "tok".
C38_Witness ==
    /\ settings.github_repo = ""
    /\ settings.github_token = "tok"
    /\ \E i \in 1..Len(workers) :
          /\ workers[i].token = "tok"
          /\ workers[i].repo # ""

====
